---- MODULE Spec2Model ----
(***************************************************************************)
(* Model of the go-sync Slack conversation adapter                         *)
(* (pkg/adapters/slack/conversation/conversation.go) and of the read-only  *)
(* Opsgenie on-call adapter exercised by oncall_internal_test.go.          *)
(*                                                                         *)
(* The Slack client is an external collaborator: every remote call is one  *)
(* action whose answer (a page, a cursor, a profile list, an identifier,   *)
(* or an error) is chosen nondeterministically.  The adapter's code        *)
(* between two remote calls is executed inside the action of the call that *)
(* precedes it.                                                            *)
(***************************************************************************)
EXTENDS Integers, Sequences, FiniteSets, TLC

(* ------------------------------ bounds -------------------------------- *)
MaxBatch == 2       \* longest email list handed to Add / Remove
MaxPages == 2       \* most listing pages the remote serves in one Get

(* ----------------------------- universes ------------------------------ *)
Emails  == {"a@x.com", "b@x.com"}
UserIDs == {"U1", "U2"}
Cursors == {"c1", "c2"}
Procs   == {"p1", "p2"}
Main    == "p1"

NoID      == ""     \* Go's zero value of string: c.cache[email] on a miss
NoCursor  == ""     \* zero value of `var cursor string`
ErrNil       == "nil"
ErrRemote    == "ErrRemote"       \* any error returned by the remote client
ErrCacheEmpty == "ErrCacheEmpty"
ErrReadOnly  == "ErrReadOnly"

BSeq(S, n) == UNION {[1..k -> S] : k \in 0..n}
Batches    == BSeq(Emails, MaxBatch)
Pages      == BSeq(UserIDs, 1)
Profiles   == [ID : UserIDs, Email : Emails, IsBot : BOOLEAN]

(* ------------------------- the cache (a Go map) ----------------------- *)
EmptyCache == [e \in {} |-> NoID]

\* Variant: a write to a key the map already holds is dropped.
PutKeepsFirst(c, e, id) ==
    [x \in (DOMAIN c) \cup {e} |-> IF x \in DOMAIN c THEN c[x] ELSE id]

Put(c, e, id) == [x \in (DOMAIN c) \cup {e} |-> IF x = e THEN id ELSE c[x]]

\* Variant: the eviction is dropped, the map keeps the entry.
DeleteNothing(c, e) == c

Delete(c, e) == [x \in (DOMAIN c) \ {e} |-> c[x]]

Lookup(c, e) == IF e \in DOMAIN c THEN c[e] ELSE NoID

MapLen(c) == Cardinality(DOMAIN c)

Without(c, S) == [x \in (DOMAIN c) \ S |-> c[x]]

\* The history of what the remote returned, after the users (email and
\* identifier) of one more answer, the later answer for an email replacing
\* the earlier.
RECURSIVE Observe(_, _)
Observe(l, users) ==
    IF users = <<>> THEN l
    ELSE Observe((Head(users).Email :> Head(users).ID) @@ l, Tail(users))

VARIABLES
    cache,      \* c.cache when it is a map (EmptyCache while it is nil)
    cacheNil,   \* TRUE iff c.cache is the nil map
    pc,         \* per caller: where its operation stands
    fr,         \* per caller: the locals of the running operation
    calls,      \* per caller: remote calls (and sleeps) of the running operation
    ret,        \* what the last completed operation returned, with its call log
                \* (blank while an operation runs)
    prev,       \* while an operation runs: short record of the one before it
    ctxDone,    \* per caller: the context of its running operation is cancelled
    gone,       \* history: email -> the identifier its entry held when a removal
                \* evicted it, until the email is cached again
    learned,    \* history: email -> the identifier the remote returned for it
                \* the last time a Get or an Add of this adapter resolved it
    ocCalls,    \* on-call adapter: calls received by its schedule client
    ocRet       \* on-call adapter: what its last operation returned

vars == <<cache, cacheNil, pc, fr, calls, ret, prev, ctxDone, gone, learned, ocCalls, ocRet>>
slackVars ==
    <<cache, cacheNil, pc, fr, calls, ret, prev, ctxDone, gone, learned>>
onCallVars == <<ocCalls, ocRet>>

(* ------------------------------ records ------------------------------- *)
NoFrame == [op |-> "none", emails |-> <<>>, index |-> 0, cursor |-> NoCursor,
            users |-> <<>>, slackIds |-> <<>>, cache0 |-> EmptyCache, nil0 |-> FALSE]

NewFrame(name, emails) ==
    [op |-> name, emails |-> emails, index |-> 1, cursor |-> NoCursor,
     users |-> <<>>, slackIds |-> [i \in 1..Len(emails) |-> NoID],
     cache0 |-> cache, nil0 |-> cacheNil]

NoRet == [op |-> "none", emails |-> <<>>, err |-> ErrNil, out |-> <<>>,
          calls |-> <<>>, cache0 |-> EmptyCache, nil0 |-> FALSE]

\* The remote call an operation failed at ("none" when its last call succeeded).
FailedAt(log) ==
    IF log # <<>> /\ ~log[Len(log)].ok THEN log[Len(log)].api ELSE "none"

Brief(r) == [op |-> r.op, emails |-> r.emails, err |-> r.err, out |-> r.out,
             at |-> FailedAt(r.calls)]

NoPrev == Brief(NoRet)

Panicked == \E p \in Procs : pc[p] = "panic"

Idle == \A p \in Procs : pc[p] = "idle"


(* ------------------------- operation bookkeeping ---------------------- *)
\* An operation is entered: its locals are initialised and the record of the
\* operation before it is shortened.
Begin(p, name, emails, next) ==
    /\ pc' = [pc EXCEPT ![p] = next]
    /\ fr' = [fr EXCEPT ![p] = NewFrame(name, emails)]
    /\ calls' = [calls EXCEPT ![p] = <<>>]
    /\ prev' = Brief(ret)
    /\ ret' = NoRet
    /\ ctxDone' = [ctxDone EXCEPT ![p] = FALSE]

\* `return out, err` of the running operation, after the calls in log.
Finish(p, err, out, log) ==
    /\ pc' = [pc EXCEPT ![p] = "idle"]
    /\ ret' = [op |-> fr[p].op, emails |-> fr[p].emails, err |-> err, out |-> out,
               calls |-> log, cache0 |-> fr[p].cache0, nil0 |-> fr[p].nil0]
    /\ fr' = [fr EXCEPT ![p] = NoFrame]
    /\ calls' = [calls EXCEPT ![p] = <<>>]
    /\ prev' = NoPrev
    /\ ctxDone' = [ctxDone EXCEPT ![p] = FALSE]

\* A write to the nil map: the Go runtime panics and the program is gone.
Panic(p, log) ==
    /\ pc' = [pc EXCEPT ![p] = "panic"]
    /\ calls' = [calls EXCEPT ![p] = log]
    /\ UNCHANGED <<cache, cacheNil, fr, ret, prev, ctxDone, gone, learned>>

(* --------------------------------- Get -------------------------------- *)
Get(p) ==
    /\ ~Panicked
    /\ pc[p] = "idle"
    /\ Begin(p, "Get", <<>>, "list")
    /\ UNCHANGED <<cache, cacheNil, gone, learned, onCallVars>>

ListCalls(log) == SelectSeq(log, LAMBDA c : c.api = "list")

\* Variant: the cursor is never carried over, every request asks for page one.
RequestFirstPage(f) == NoCursor

\* The cursor a page request carries: the one the preceding page returned.
RequestCursor(f) == f.cursor

\* What the listing loop does once a page has been appended.
AfterPage(next) == IF next = NoCursor THEN "info" ELSE "list"

\* Variant: a failed Get drops the cache, as a failed invite does.
GetFailureDropsCache(p, log) ==
    /\ Finish(p, ErrRemote, <<>>, log)
    /\ cache' = EmptyCache
    /\ cacheNil' = TRUE
    /\ UNCHANGED <<gone, learned>>

\* Variant: a failed page or info call is issued again instead of returned.
GetFailureRetry(p, log) ==
    /\ calls' = [calls EXCEPT ![p] = log]
    /\ UNCHANGED <<cache, cacheNil, pc, fr, ret, prev, ctxDone, gone, learned>>

\* `return nil, err` of Get after a failed page or info call.
GetFailure(p, log) ==
    /\ Finish(p, ErrRemote, <<>>, log)
    /\ UNCHANGED <<cache, cacheNil, gone, learned>>

\* One iteration of the loop of getListOfSlackUsernames.
GetUsersInConversation(p) ==
    /\ ~Panicked
    /\ pc[p] = "list"
    /\ UNCHANGED onCallVars
    /\ \/ GetFailure(p, Append(calls[p],
                [api |-> "list", arg |-> RequestCursor(fr[p]),
                 ok |-> FALSE, page |-> <<>>, res |-> NoCursor]))
       \/ \E page \in Pages, next \in Cursors \cup {NoCursor} :
            /\ next # NoCursor => Len(ListCalls(calls[p])) + 1 < MaxPages
            /\ pc' = [pc EXCEPT ![p] = AfterPage(next)]
            /\ fr' = [fr EXCEPT ![p].users = fr[p].users \o page, ![p].cursor = next]
            /\ calls' = [calls EXCEPT ![p] = Append(@,
                            [api |-> "list", arg |-> RequestCursor(fr[p]),
                             ok |-> TRUE, page |-> page, res |-> next])]
            /\ UNCHANGED <<cache, cacheNil, ret, prev, ctxDone, gone, learned>>

IsHuman(user) == ~user.IsBot

HumanProfiles(users) == SelectSeq(users, IsHuman)

EmailsOf(users) == [i \in 1..Len(users) |-> users[i].Email]

\* Variant: the cache is rebuilt from the answer, older entries dropped.
CacheAllFresh(c, users) ==
    [e \in {users[i].Email : i \in 1..Len(users)} |->
        users[CHOOSE i \in 1..Len(users) :
                /\ users[i].Email = e
                /\ \A j \in (i + 1)..Len(users) : users[j].Email # e].ID]

RECURSIVE CacheAll(_, _)
CacheAll(c, users) ==
    IF users = <<>> THEN c
    ELSE CacheAll(Put(c, Head(users).Email, Head(users).ID), Tail(users))

\* The answers GetUsersInfo may give: one profile per requested identifier.
InfoResponses(ids) ==
    {us \in [1..Len(ids) -> Profiles] : \A i \in 1..Len(ids) : us[i].ID = ids[i]}

\* Get after the listing: the batched info call and the loop over its answer.
GetUsersInfo(p) ==
    /\ ~Panicked
    /\ pc[p] = "info"
    /\ UNCHANGED onCallVars
    /\ \/ GetFailure(p, Append(calls[p], [api |-> "info", arg |-> fr[p].users,
                                           ok |-> FALSE, res |-> <<>>]))
       \/ \E users \in InfoResponses(fr[p].users) :
            LET log == Append(calls[p], [api |-> "info", arg |-> fr[p].users,
                                         ok |-> TRUE, res |-> users])
                humans == HumanProfiles(users)
            IN IF cacheNil /\ humans # <<>>
               THEN Panic(p, log)
               ELSE /\ cache' = IF cacheNil THEN cache ELSE CacheAll(cache, humans)
                    /\ gone' = Without(gone, {humans[i].Email : i \in 1..Len(humans)})
                    /\ learned' = Observe(learned, humans)
                    /\ UNCHANGED cacheNil
                    /\ Finish(p, ErrNil, EmailsOf(humans), log)

(* --------------------------------- Add -------------------------------- *)
\* Where Add goes after its entry: the lookup loop is skipped for no emails.
AddEntry(emails) == IF emails = <<>> THEN "invite" ELSE "lookup"

Add(p, emails) ==
    /\ ~Panicked
    /\ pc[p] = "idle"
    /\ Begin(p, "Add", emails, AddEntry(emails))
    /\ UNCHANGED <<cache, cacheNil, gone, learned, onCallVars>>

\* Variant: the invite is issued as soon as one email is resolved.
AfterLookupInviteAtOnce(f) == "invite"

\* Where the lookup loop goes after email number index has been resolved.
AfterLookup(f) == IF f.index = Len(f.emails) THEN "invite" ELSE "lookup"

\* One iteration of the loop of Add: resolve emails[index] and cache it.
GetUserByEmail(p) ==
    /\ ~Panicked
    /\ pc[p] = "lookup"
    /\ UNCHANGED onCallVars
    /\ LET f == fr[p]
           email == f.emails[f.index]
       IN \/ /\ Finish(p, ErrRemote, f.slackIds,
                       Append(calls[p], [api |-> "lookup", arg |-> email,
                                         ok |-> FALSE, res |-> NoID]))
             /\ UNCHANGED <<cache, cacheNil, gone, learned>>
          \/ \E id \in UserIDs :
               LET log == Append(calls[p], [api |-> "lookup", arg |-> email,
                                            ok |-> TRUE, res |-> id])
               IN IF cacheNil
                  THEN Panic(p, log)
                  ELSE /\ cache' = Put(cache, email, id)
                       /\ gone' = Without(gone, {email})
                       /\ learned' = Observe(learned, <<[Email |-> email, ID |-> id]>>)
                       /\ UNCHANGED <<cacheNil, ret, prev, ctxDone>>
                       /\ pc' = [pc EXCEPT ![p] = AfterLookup(f)]
                       /\ fr' = [fr EXCEPT ![p].slackIds[f.index] = id,
                                           ![p].index = f.index + 1]
                       /\ calls' = [calls EXCEPT ![p] = log]

\* Variant: the failed invite leaves the cache as the lookups filled it.
DiscardNothing == UNCHANGED <<cache, cacheNil>>

\* `c.cache = nil` after a failed invite.
DiscardCache ==
    /\ cache' = EmptyCache
    /\ cacheNil' = TRUE

\* The single batched invite that ends Add.
InviteUsersToConversation(p) ==
    /\ ~Panicked
    /\ pc[p] = "invite"
    /\ UNCHANGED <<gone, learned, onCallVars>>
    /\ \/ /\ DiscardCache
          /\ Finish(p, ErrRemote, fr[p].slackIds,
                    Append(calls[p], [api |-> "invite", arg |-> fr[p].slackIds,
                                      ok |-> FALSE, res |-> NoID]))
       \/ /\ UNCHANGED <<cache, cacheNil>>
          /\ Finish(p, ErrNil, fr[p].slackIds,
                    Append(calls[p], [api |-> "invite", arg |-> fr[p].slackIds,
                                      ok |-> TRUE, res |-> NoID]))

(* -------------------------------- Remove ------------------------------ *)
\* Variant: the guard tests `c.cache == nil` instead of the length.
CacheIsEmptyNilOnly(c) == cacheNil

\* The guard `len(c.cache) == 0`; len of the nil map is 0 as well.
CacheIsEmpty(c) == MapLen(c) = 0

\* Entry of Remove: the guard, then the loop (which no email enters).
Remove(p, emails) ==
    /\ ~Panicked
    /\ pc[p] = "idle"
    /\ UNCHANGED <<cache, cacheNil, gone, learned, onCallVars>>
    /\ IF CacheIsEmpty(cache) \/ emails = <<>>
       THEN /\ ret' = [op |-> "Remove", emails |-> emails,
                       err |-> IF CacheIsEmpty(cache) THEN ErrCacheEmpty ELSE ErrNil,
                       out |-> <<>>, calls |-> <<>>,
                       cache0 |-> cache, nil0 |-> cacheNil]
            /\ prev' = NoPrev
            /\ UNCHANGED <<pc, fr, calls, ctxDone>>
       ELSE Begin(p, "Remove", emails, "kick")

\* Variant: the removal call is handed the email instead of its identifier.
KickTargetEmail(c, email) == email

\* The identifier a removal call carries.
KickTarget(c, email) == Lookup(c, email)

\* One removal call of the loop of Remove, and the eviction that follows it.
KickUserFromConversation(p) ==
    /\ ~Panicked
    /\ pc[p] = "kick"
    /\ UNCHANGED onCallVars
    /\ LET f == fr[p]
           email == f.emails[f.index]
           id == KickTarget(cache, email)
       IN \/ /\ Finish(p, ErrRemote, <<>>,
                       Append(calls[p], [api |-> "kick", arg |-> id,
                                         ok |-> FALSE, res |-> NoID]))
             /\ UNCHANGED <<cache, cacheNil, gone, learned>>
          \/ /\ cache' = Delete(cache, email)
             /\ gone' = IF email \in DOMAIN cache
                        THEN Put(gone, email, cache[email]) ELSE gone
             /\ UNCHANGED learned
             /\ pc' = [pc EXCEPT ![p] = "sleep"]
             /\ calls' = [calls EXCEPT ![p] = Append(@,
                             [api |-> "kick", arg |-> id, ok |-> TRUE, res |-> NoID])]
             /\ UNCHANGED <<cacheNil, fr, ret, prev, ctxDone>>

\* Variant: the loop goes on to the next email without the delay.
SleepSkipped(p) ==
    /\ ~Panicked
    /\ pc[p] = "sleep"
    /\ UNCHANGED <<cache, cacheNil, gone, learned, onCallVars>>
    /\ LET f == fr[p]
       IN IF f.index = Len(f.emails)
          THEN Finish(p, ErrNil, <<>>, calls[p])
          ELSE /\ pc' = [pc EXCEPT ![p] = "kick"]
               /\ fr' = [fr EXCEPT ![p].index = f.index + 1]
               /\ UNCHANGED <<calls, ret, prev, ctxDone>>

\* time.Sleep(1 * time.Second) after a kick, then the next email or the return.
Sleep(p) ==
    /\ ~Panicked
    /\ pc[p] = "sleep"
    /\ UNCHANGED <<cache, cacheNil, gone, learned, onCallVars>>
    /\ LET f == fr[p]
           log == Append(calls[p], [api |-> "sleep", arg |-> NoID,
                                    ok |-> TRUE, res |-> NoID])
       IN IF f.index = Len(f.emails)
          THEN Finish(p, ErrNil, <<>>, log)
          ELSE /\ pc' = [pc EXCEPT ![p] = "kick"]
               /\ fr' = [fr EXCEPT ![p].index = f.index + 1]
               /\ calls' = [calls EXCEPT ![p] = log]
               /\ UNCHANGED <<ret, prev, ctxDone>>

(* ------------------- the read-only on-call adapter -------------------- *)
MaxOnCalls == 2     \* most schedule requests recorded by the mocked client

Dates == {"t1", "t2"}     \* what the adapter's getTime may answer

OnCallNewRet == [op |-> "New", emails |-> <<>>, err |-> ErrNil, out |-> <<>>,
                 before |-> 0]

\* New(config, scheduleID): the adapter is built around the schedule client.
OnCallNew ==
    /\ ocRet' = [OnCallNewRet EXCEPT !.before = Len(ocCalls)]
    /\ UNCHANGED ocCalls
    /\ UNCHANGED slackVars

\* Get: one GetOnCalls request dated getTime(), answered or failed.
OnCallGet ==
    /\ Len(ocCalls) < MaxOnCalls
    /\ \E date \in Dates :
         /\ ocCalls' = Append(ocCalls, [api |-> "GetOnCalls", date |-> date])
         /\ \/ \E recipients \in Batches :
                 ocRet' = [op |-> "Get", emails |-> <<>>, err |-> ErrNil,
                           out |-> recipients, before |-> Len(ocCalls)]
            \/ ocRet' = [op |-> "Get", emails |-> <<>>, err |-> ErrRemote,
                         out |-> <<>>, before |-> Len(ocCalls)]
    /\ UNCHANGED slackVars

\* Variant: the mutating operation asks the schedule before it refuses.
OnCallRejectAfterRequest(name, emails) ==
    /\ ocRet' = [op |-> name, emails |-> emails, err |-> ErrReadOnly,
                 out |-> <<>>, before |-> Len(ocCalls)]
    /\ ocCalls' = Append(ocCalls, [api |-> "GetOnCalls", date |-> "t1"])

\* What a mutating operation of the read-only adapter returns.
OnCallReject(name, emails) ==
    /\ ocRet' = [op |-> name, emails |-> emails, err |-> ErrReadOnly,
                 out |-> <<>>, before |-> Len(ocCalls)]
    /\ UNCHANGED ocCalls

OnCallAdd(emails) ==
    /\ OnCallReject("Add", emails)
    /\ UNCHANGED slackVars

OnCallRemove(emails) ==
    /\ OnCallReject("Remove", emails)
    /\ UNCHANGED slackVars

(* ------------------------- the sequential caller ---------------------- *)
Init ==
    /\ cache = EmptyCache
    /\ cacheNil = FALSE
    /\ pc = [p \in Procs |-> "idle"]
    /\ fr = [p \in Procs |-> NoFrame]
    /\ calls = [p \in Procs |-> <<>>]
    /\ ret = NoRet
    /\ prev = NoPrev
    /\ ctxDone = [p \in Procs |-> FALSE]
    /\ gone = EmptyCache
    /\ learned = EmptyCache
    /\ ocCalls = <<>>
    /\ ocRet = OnCallNewRet

\* One coordinating caller: an operation is entered only when none is running.
Next ==
    \/ Idle /\ Get(Main)
    \/ Idle /\ \E emails \in Batches : Add(Main, emails)
    \/ Idle /\ \E emails \in Batches : Remove(Main, emails)
    \/ GetUsersInConversation(Main)
    \/ GetUsersInfo(Main)
    \/ GetUserByEmail(Main)
    \/ InviteUsersToConversation(Main)
    \/ KickUserFromConversation(Main)
    \/ Sleep(Main)

Spec == Init /\ [][Next]_vars

\* The on-call adapter under test, as oncall_internal_test.go drives it.
NextOnCall ==
    \/ OnCallNew
    \/ OnCallGet
    \/ \E emails \in Batches : OnCallAdd(emails)
    \/ \E emails \in Batches : OnCallRemove(emails)

SpecOnCall == Init /\ [][NextOnCall]_vars

(* ------------------------------ cancellation -------------------------- *)
ErrCanceled == "context.Canceled"

Running(p) == pc[p] \notin {"idle", "panic"}

\* The caller cancels the context it handed to the operation that is running.
Cancel(p) ==
    /\ Running(p)
    /\ ~ctxDone[p]
    /\ ctxDone' = [ctxDone EXCEPT ![p] = TRUE]
    /\ UNCHANGED <<cache, cacheNil, pc, fr, calls, ret, prev, gone, learned, onCallVars>>

\* The sequential caller, who may cancel the operation it is waiting for.
NextCancel ==
    \/ Next
    \/ Cancel(Main)

SpecCancel == Init /\ [][NextCancel]_vars

(* --------------------------- concurrent callers ----------------------- *)
\* Variant: a mutex held from the entry of an operation to its return.
MayRunAlone(p) == \A q \in Procs \ {p} : pc[q] = "idle"

\* What a caller waits for before a step of its operation: nothing. The
\* adapter has no mutex, channel or atomic.
MayRun(p) == TRUE

\* The first half of a removal: `c.cache[email]` is read and the call goes
\* out. The log records the answer the remote is going to give.
KickCall(p) ==
    /\ ~Panicked
    /\ pc[p] = "kick"
    /\ \E ok \in BOOLEAN :
         calls' = [calls EXCEPT ![p] = Append(@,
                     [api |-> "kick", ok |-> ok, res |-> NoID,
                      arg |-> KickTarget(cache, fr[p].emails[fr[p].index])])]
    /\ pc' = [pc EXCEPT ![p] = "kicking"]
    /\ UNCHANGED <<cache, cacheNil, fr, ret, prev, ctxDone, gone, learned, onCallVars>>

\* The second half: the call returns, and on success the entry is evicted.
KickReturn(p) ==
    /\ ~Panicked
    /\ pc[p] = "kicking"
    /\ UNCHANGED onCallVars
    /\ LET email == fr[p].emails[fr[p].index]
       IN IF calls[p][Len(calls[p])].ok
          THEN /\ cache' = Delete(cache, email)
               /\ gone' = IF email \in DOMAIN cache
                          THEN Put(gone, email, cache[email]) ELSE gone
               /\ pc' = [pc EXCEPT ![p] = "sleep"]
               /\ UNCHANGED <<cacheNil, fr, calls, ret, prev, ctxDone, learned>>
          ELSE /\ Finish(p, ErrRemote, <<>>, calls[p])
               /\ UNCHANGED <<cache, cacheNil, gone, learned>>

\* The access to c.cache that the next step of caller p makes.
NextAccess(p) ==
    CASE pc[p] \in {"info", "lookup", "invite", "kicking"} -> "write"
      [] pc[p] = "kick" -> "read"
      [] OTHER -> "none"

\* Two callers reach the map at once, one of them writing: a data race. Apart
\* from the outcomes of the two orders, the Go runtime may stop the program
\* with `fatal error: concurrent map read and map write` (or `concurrent map
\* writes`).
ConcurrentMapAccess(p) ==
    /\ ~Panicked
    /\ \E q \in Procs \ {p} :
         /\ NextAccess(p) # "none"
         /\ NextAccess(q) # "none"
         /\ "write" \in {NextAccess(p), NextAccess(q)}
    /\ pc' = [pc EXCEPT ![p] = "panic"]
    /\ UNCHANGED <<cache, cacheNil, fr, calls, ret, prev, ctxDone, gone, learned,
                   onCallVars>>

\* The caches earlier sequential use can have left behind: any map from
\* emails to identifiers, or the nil map of a failed invite.
Caches == UNION {[S -> UserIDs] : S \in SUBSET Emails}

\* The adapter after some sequential use, no operation running.
InitConc ==
    /\ cache \in Caches
    /\ cacheNil \in (IF cache = EmptyCache THEN BOOLEAN ELSE {FALSE})
    /\ pc = [p \in Procs |-> "idle"]
    /\ fr = [p \in Procs |-> NoFrame]
    /\ calls = [p \in Procs |-> <<>>]
    /\ ret = NoRet
    /\ prev = NoPrev
    /\ ctxDone = [p \in Procs |-> FALSE]
    /\ gone = EmptyCache
    /\ learned = cache
    /\ ocCalls = <<>>
    /\ ocRet = OnCallNewRet

\* Operations overlap: each is entered before any operation has returned.
Overlapping == ret = NoRet

\* Two callers use the adapter at once, each step of one interleaved with the
\* steps of the other.
NextConc ==
    \/ \E p \in Procs : Overlapping /\ MayRun(p) /\ Get(p)
    \/ \E p \in Procs, emails \in Batches :
            Overlapping /\ MayRun(p) /\ Add(p, emails)
    \/ \E p \in Procs, emails \in Batches :
            Overlapping /\ MayRun(p) /\ Remove(p, emails)
    \/ \E p \in Procs : MayRun(p) /\ GetUsersInConversation(p)
    \/ \E p \in Procs : MayRun(p) /\ GetUsersInfo(p)
    \/ \E p \in Procs : MayRun(p) /\ GetUserByEmail(p)
    \/ \E p \in Procs : MayRun(p) /\ InviteUsersToConversation(p)
    \/ \E p \in Procs : MayRun(p) /\ KickCall(p)
    \/ \E p \in Procs : MayRun(p) /\ KickReturn(p)
    \/ \E p \in Procs : MayRun(p) /\ Sleep(p)
    \/ \E p \in Procs : ConcurrentMapAccess(p)

SpecConc == InitConc /\ [][NextConc]_vars

(* ============================== properties ============================ *)
Range(seq) == {seq[i] : i \in 1..Len(seq)}

CallsOf(log, name) == SelectSeq(log, LAMBDA c : c.api = name)

C2_InviteFailureEmptiesCache ==
    (ret.op = "Add" /\ FailedAt(ret.calls) = "invite") =>
        /\ ret.err # ErrNil
        /\ MapLen(cache) = 0

\* The failed Add had resolved two emails and found an older entry in the cache.
C2_Witness ==
    /\ ret.op = "Add"
    /\ FailedAt(ret.calls) = "invite"
    /\ Len(CallsOf(ret.calls, "lookup")) = 2
    /\ \E e \in DOMAIN ret.cache0 : e \notin Range(ret.emails)

(* C3: after an Add whose invite failed the adapter is as it was at          *)
(* construction and stays usable: the operation entered next runs to its     *)
(* return, it never crashes on the cache the failed invite left behind.      *)
C3_UsableAfterFailedInvite ==
    \A p \in Procs : (prev.op = "Add" /\ prev.at = "invite") => pc[p] # "panic"

(* ---- Remove ---- *)
Kicks(log) == CallsOf(log, "kick")

Prefix(seq, n) == {seq[i] : i \in 1..n}

FirstOccurrence(seq, i) == \A j \in 1..(i - 1) : seq[j] # seq[i]

\* What holds of every Remove that a failed removal call ended: the calls went
\* out in input order, each for the entry the cache held at that moment, the
\* failed call is the last thing Remove did, and all calls before it succeeded.
StopsAtFirstFailure(r) ==
    LET kicks == Kicks(r.calls)
        k == Len(kicks)
    IN /\ k \in 1..Len(r.emails)
       /\ r.calls[Len(r.calls)].api = "kick"
       /\ \A i \in 1..k :
            /\ kicks[i].ok <=> i < k
            /\ kicks[i].arg =
                 Lookup(Without(r.cache0, Prefix(r.emails, i - 1)), r.emails[i])

(* C4 (as amended): a Remove stopped by a failed removal call returns the    *)
(* error; the emails before the failing one were called for in input order   *)
(* and are gone from the cache; every other entry of the cache is as it was, *)
(* so the failing email and those after it keep their entries unless the     *)
(* same email also stands earlier in the batch; nothing follows the failure. *)
C4_RemoveStopsAtFirstFailure ==
    (ret.op = "Remove" /\ ret.err = ErrRemote) =>
        /\ StopsAtFirstFailure(ret)
        /\ cache = Without(ret.cache0, Prefix(ret.emails, Len(Kicks(ret.calls)) - 1))
        /\ cacheNil = ret.nil0

\* Two cached emails, the first removed and evicted, the second failed and kept.
C4_Witness ==
    /\ ret.op = "Remove"
    /\ ret.err = ErrRemote
    /\ Len(Kicks(ret.calls)) = 2
    /\ ret.emails[1] # ret.emails[2]
    /\ Range(ret.emails) \subseteq DOMAIN ret.cache0
    /\ ret.emails[1] \notin DOMAIN cache
    /\ ret.emails[2] \in DOMAIN cache

(* C4 (as stated): ... and the failing email and every email after it keep  *)
(* the cache entries they had when Remove was entered.                       *)
C4_AsStated ==
    (ret.op = "Remove" /\ ret.err = ErrRemote) =>
        LET k == Len(Kicks(ret.calls))
        IN /\ StopsAtFirstFailure(ret)
           /\ \A i \in 1..(k - 1) : ret.emails[i] \notin DOMAIN cache
           /\ \A i \in k..Len(ret.emails) :
                Lookup(cache, ret.emails[i]) = Lookup(ret.cache0, ret.emails[i])

(* ---- Add, then Remove ---- *)
LastIndex(seq, x) ==
    CHOOSE i \in 1..Len(seq) : seq[i] = x /\ \A j \in (i + 1)..Len(seq) : seq[j] # x

\* The identifier Add resolved for an email of its batch (the last, if the
\* batch names the email more than once).
ResolvedFor(emails, ids, e) == ids[LastIndex(emails, e)]

\* The operation before the running one was an Add that succeeded.
AfterAddOk == prev.op = "Add" /\ prev.err = ErrNil

\* The log of caller p once the step is taken: still running, or returned.
LogAfterStep(p) == IF pc'[p] = "idle" THEN ret'.calls ELSE calls'[p]

\* After a successful Add: the invite carried the identifiers the lookups
\* returned, and the cache maps each email of the batch to its identifier.
AddOkCached ==
    (ret.op = "Add" /\ ret.err = ErrNil /\ ret.emails # <<>>) =>
        LET n == Len(ret.emails)
        IN /\ ~cacheNil
           /\ Len(ret.calls) = n + 1
           /\ ret.calls[n + 1].api = "invite"
           /\ ret.calls[n + 1].arg = ret.out
           /\ \A i \in 1..n : ret.calls[i].ok /\ ret.out[i] = ret.calls[i].res
           /\ \A e \in Range(ret.emails) :
                e \in DOMAIN cache /\ cache[e] = ResolvedFor(ret.emails, ret.out, e)

\* A Remove entered right after a successful Add of a non-empty batch is not
\* turned away by the empty-cache guard.
RemoveAfterAddEnters ==
    (ret.op = "Add" /\ ret.err = ErrNil /\ ret.emails # <<>> /\ ret'.op = "Remove")
        => ret'.err # ErrCacheEmpty

\* A removal call of a Remove of the same batch, for an email not yet called
\* for in this Remove, carries the identifier that Add resolved.
RemoveAfterAddKick(p) ==
    (/\ pc[p] = "kick"
     /\ AfterAddOk
     /\ fr[p].emails = prev.emails
     /\ FirstOccurrence(fr[p].emails, fr[p].index)) =>
        LET log == LogAfterStep(p)
            kick == log[Len(log)]
        IN /\ kick.api = "kick"
           /\ kick.arg = ResolvedFor(prev.emails, prev.out, fr[p].emails[fr[p].index])
           /\ pc'[p] = "idle" => ret'.err # ErrCacheEmpty

(* C5 (as amended): after an Add of a non-empty batch that succeeded         *)
(* remotely the cache maps every email of the batch to the identifier        *)
(* resolved for it (the last one, were an email named twice), all of them    *)
(* invited; a Remove of that batch entered next does not return              *)
(* ErrCacheEmpty, and its first removal call for each email carries exactly  *)
(* that identifier.                                                          *)
C5_RemoveAfterAdd ==
    /\ []AddOkCached
    /\ [][RemoveAfterAddEnters /\ \A p \in Procs : RemoveAfterAddKick(p)]_vars

\* The second removal call of a Remove that follows a successful Add of the
\* same two distinct emails is about to go out, with no Get in between.
C5_Witness ==
    /\ pc[Main] = "kick"
    /\ fr[Main].op = "Remove"
    /\ fr[Main].index = 2
    /\ AfterAddOk
    /\ fr[Main].emails = prev.emails
    /\ prev.emails[1] # prev.emails[2]
    /\ prev.out[1] # prev.out[2]

(* C5 (as stated): after any Add that succeeded remotely, a Remove of the    *)
(* same emails entered next does not return ErrCacheEmpty and every one of   *)
(* its removal calls carries the identifier resolved for its email.          *)
C5_AsStated ==
    [][/\ (ret.op = "Add" /\ ret.err = ErrNil /\ ret'.op = "Remove"
              /\ ret'.emails = ret.emails) => ret'.err # ErrCacheEmpty
       /\ \A p \in Procs :
            (pc[p] = "kick" /\ AfterAddOk /\ fr[p].emails = prev.emails) =>
                LET log == LogAfterStep(p)
                IN log[Len(log)].arg =
                     ResolvedFor(prev.emails, prev.out, fr[p].emails[fr[p].index])]_vars

(* ---- Get ---- *)
RECURSIVE Concat(_)
Concat(seqs) == IF seqs = <<>> THEN <<>> ELSE Head(seqs) \o Concat(Tail(seqs))

PagesOf(log) == LET l == CallsOf(log, "list") IN [i \in 1..Len(l) |-> l[i].page]

\* The identifier of the last human of an answer that has email e.
LastHumanID(humans, e) == humans[LastIndex(EmailsOf(humans), e)].ID

\* What a Get that returned no error has returned and cached: the info call
\* asked for the members of all pages; the result lists the emails of the
\* humans among the answers and of nobody else; each of these emails is cached
\* with its identifier; every other entry of the cache is as Get found it, so
\* no bot was added.
GetOkResult(r, c) ==
    LET info == r.calls[Len(r.calls)]
        humans == HumanProfiles(info.res)
    IN /\ info.api = "info"
       /\ info.arg = Concat(PagesOf(r.calls))
       /\ Len(info.res) = Len(info.arg)
       /\ r.out = EmailsOf(humans)
       /\ \A i \in 1..Len(humans) : ~humans[i].IsBot
       /\ Len(humans) = Cardinality({i \in 1..Len(info.res) : ~info.res[i].IsBot})
       /\ DOMAIN c = (DOMAIN r.cache0) \cup Range(r.out)
       /\ \A e \in DOMAIN c :
            c[e] = IF e \in Range(r.out) THEN LastHumanID(humans, e) ELSE r.cache0[e]

(* C6: for every page sequence that ends with an empty cursor, Get returns   *)
(* the emails of the human members of all pages and caches exactly their     *)
(* identifiers, bots left out of both: Get does return (it does not crash),  *)
(* and what it returns and caches is GetOkResult.                            *)
C6_GetReturnsHumans ==
    /\ \A p \in Procs : fr[p].op = "Get" => pc[p] # "panic"
    /\ (ret.op = "Get" /\ ret.err = ErrNil) => GetOkResult(ret, cache)

\* The part of C6 that the code keeps: a Get that returns, returns GetOkResult.
GetOkResultHolds == (ret.op = "Get" /\ ret.err = ErrNil) => GetOkResult(ret, cache)

\* The listing calls of a log follow the cursor chain.
CursorChain(log) ==
    LET l == CallsOf(log, "list")
    IN /\ l # <<>> => l[1].arg = NoCursor
       /\ \A i \in 2..Len(l) : l[i].arg = l[i - 1].res
       /\ \A i \in 1..(Len(l) - 1) : l[i].ok /\ l[i].res # NoCursor

(* C7: the first page is requested with the empty cursor, every further page *)
(* with the cursor the page before it returned, and no page is requested     *)
(* after a page that returned the empty cursor (or failed): once that page   *)
(* is in, Get is past its listing loop.                                      *)
C7_CursorChain ==
    /\ CursorChain(ret.calls)
    /\ \A p \in Procs :
         /\ CursorChain(calls[p])
         /\ pc[p] = "list" =>
              \A i \in 1..Len(calls[p]) :
                  calls[p][i].ok /\ calls[p][i].res # NoCursor

\* A Get of two pages: the first returned cursor c2 with a member, the second
\* was asked for with c2 and ended the listing.
C7_Witness ==
    LET l == CallsOf(ret.calls, "list")
    IN /\ ret.op = "Get"
       /\ Len(l) = 2
       /\ l[1].res = "c2"
       /\ l[1].page # <<>>
       /\ l[2].arg = "c2"
       /\ l[2].ok /\ l[2].res = NoCursor
       /\ l[2].page # <<>>

(* C8: a Get in which a page call or the info call failed returns an error   *)
(* and no email at all, and leaves the cache exactly as it found it.         *)
C8_FailedGetChangesNothing ==
    (ret.op = "Get" /\ FailedAt(ret.calls) \in {"list", "info"}) =>
        /\ ret.err = ErrRemote
        /\ ret.out = <<>>
        /\ cache = ret.cache0
        /\ cacheNil = ret.nil0

\* The info call failed after a page with a member, on a cache that had entries.
C8_Witness ==
    /\ ret.op = "Get"
    /\ FailedAt(ret.calls) = "info"
    /\ ret.calls[Len(ret.calls)].arg # <<>>
    /\ MapLen(ret.cache0) > 0
    /\ cache = ret.cache0

(* ---- Add ---- *)
\* The calls of an Add: the lookups of emails 1, 2, ... in input order, a
\* failed lookup being the last call; then, after a lookup of every email has
\* succeeded, at most one invite, which carries the identifiers in that order.
AddCallOrder(emails, log) ==
    \A j \in 1..Len(log) :
        IF j <= Len(emails)
        THEN /\ log[j].api = "lookup"
             /\ log[j].arg = emails[j]
             /\ ~log[j].ok => j = Len(log)
        ELSE /\ j = Len(emails) + 1
             /\ j = Len(log)
             /\ log[j].api = "invite"
             /\ log[j].arg = [i \in 1..Len(emails) |-> log[i].res]

(* C9: every Add resolves its emails one at a time in input order and issues *)
(* at most one invite, only after a lookup has succeeded for every email,    *)
(* with the identifiers in input order; a failed lookup ends Add at once     *)
(* with that error: no further lookup, no invite.                            *)
C9_LookupsBeforeInvite ==
    /\ ret.op = "Add" =>
         /\ AddCallOrder(ret.emails, ret.calls)
         /\ FailedAt(ret.calls) = "lookup" => ret.err = ErrRemote
    /\ \A p \in Procs :
         fr[p].op = "Add" =>
            /\ AddCallOrder(fr[p].emails, calls[p])
            /\ \A j \in 1..Len(calls[p]) : calls[p][j].ok

\* Two lookups in input order, then the invite with both identifiers.
C9_Witness ==
    /\ ret.op = "Add"
    /\ Len(ret.emails) = 2
    /\ ret.emails[1] # ret.emails[2]
    /\ Len(ret.calls) = 3
    /\ ret.calls[3].api = "invite"
    /\ ret.calls[3].arg[1] # ret.calls[3].arg[2]

(* ---- the read-only adapter ---- *)
(* C10: on the on-call adapter Add and Remove return ErrReadOnly without a   *)
(* single request to the schedule client, whatever the emails and whatever   *)
(* the adapter did before; constructing the adapter sends no request either. *)
C10_OnCallReadOnly ==
    /\ ocRet.op \in {"Add", "Remove"} => ocRet.err = ErrReadOnly
    /\ ocRet.op \in {"Add", "Remove", "New"} => Len(ocCalls) = ocRet.before

\* A non-empty Remove refused after the adapter had served a Get.
C10_Witness ==
    /\ ocRet.op = "Remove"
    /\ ocRet.emails # <<>>
    /\ ocRet.err = ErrReadOnly
    /\ Len(ocCalls) = 1

(* ---- cancellation ---- *)
\* Caller p takes a step of its operation (not the cancellation itself).
Steps(p) == pc'[p] # pc[p] \/ calls'[p] # calls[p]

(* C11: once the context of an operation is cancelled, Get requests no       *)
(* further page and Remove issues no further removal call and starts no      *)
(* pacing delay: the next step of the operation is its return, with the      *)
(* cancellation error and no call beyond those already made.                 *)
C11_HonoursCancellation ==
    [][\A p \in Procs :
          (ctxDone[p] /\ pc[p] \in {"list", "kick", "sleep"} /\ Steps(p)) =>
              /\ pc'[p] = "idle"
              /\ ret'.err = ErrCanceled
              /\ ret'.calls = calls[p]]_vars

(* ---- failures ---- *)
\* In a log no call follows a failed call.
FailureIsLast(log) == \A j \in 1..Len(log) : ~log[j].ok => j = Len(log)

(* C12: no remote failure is retried or swallowed: in Get, Add and Remove    *)
(* the first remote call that fails is the last thing the operation does,    *)
(* and the operation returns the remote error (wrapped), never nil; an       *)
(* operation still running has had no failed call.                           *)
C12_FailureEndsOperation ==
    /\ FailureIsLast(ret.calls)
    /\ FailedAt(ret.calls) # "none" => ret.err = ErrRemote
    /\ \A p \in Procs : \A j \in 1..Len(calls[p]) : calls[p][j].ok

\* A Get whose second page request failed: two listing calls, then the error.
C12_Witness ==
    /\ ret.op = "Get"
    /\ ret.err = ErrRemote
    /\ Len(ret.calls) = 2
    /\ ret.calls[1].ok
    /\ FailedAt(ret.calls) = "list"

(* ---- pacing ---- *)
\* In the log of a Remove every removal call but the last is a success that a
\* delay follows, and every delay follows a successful removal call.
Paced(log) ==
    \A j \in 1..Len(log) :
        /\ (log[j].api = "kick" /\ j < Len(log)) =>
                log[j].ok /\ log[j + 1].api = "sleep"
        /\ log[j].api = "sleep" =>
                j > 1 /\ log[j - 1].api = "kick" /\ log[j - 1].ok

(* C13: within one Remove a pacing delay follows each successful removal     *)
(* call and precedes the next one, so no two removal calls go out without a  *)
(* delay between them; when the delay starts the email just removed is       *)
(* already evicted; no delay follows a failed removal call.                  *)
C13_PacedRemovals ==
    /\ ret.op = "Remove" =>
         /\ Paced(ret.calls)
         /\ ret.err = ErrNil /\ ret.calls # <<>> =>
                ret.calls[Len(ret.calls)].api = "sleep"
         /\ ret.err = ErrRemote => ret.calls[Len(ret.calls)].api = "kick"
    /\ \A p \in Procs :
         /\ fr[p].op = "Remove" => Paced(calls[p])
         /\ pc[p] = "sleep" =>
              /\ calls[p][Len(calls[p])].api = "kick"
              /\ fr[p].emails[fr[p].index] \notin DOMAIN cache
         /\ pc[p] = "kick" =>
              (calls[p] = <<>> \/ calls[p][Len(calls[p])].api = "sleep")

\* Two removals, each followed by its delay.
C13_Witness ==
    /\ ret.op = "Remove"
    /\ ret.err = ErrNil
    /\ Len(ret.calls) = 4
    /\ ret.calls[1].api = "kick" /\ ret.calls[2].api = "sleep"
    /\ ret.calls[3].api = "kick" /\ ret.calls[4].api = "sleep"
    /\ ret.calls[1].arg # NoID /\ ret.calls[3].arg # NoID

(* ---- eviction ---- *)
\* Caller p takes a removal step: the call it issues is the last of its log.
KickStep(p) == pc[p] = "kick" /\ Steps(p)

KickIssued(p) == LET log == LogAfterStep(p) IN log[Len(log)]

\* A removal call that succeeds evicts the email's entry in the same step.
EvictedAtOnce(p) ==
    (KickStep(p) /\ KickIssued(p).ok) =>
        fr[p].emails[fr[p].index] \notin DOMAIN cache'

\* A removal call for an email evicted by an earlier successful removal and
\* not cached again since carries no identifier.
EvictedKickCarriesNoID(p) ==
    (KickStep(p) /\ fr[p].emails[fr[p].index] \in DOMAIN gone) =>
        KickIssued(p).arg = NoID

(* C14 (as amended): a successful removal call evicts the email's cache      *)
(* entry in the same step, and the email stays out of the cache until a Get  *)
(* or an Add caches it again; until then every later removal call for that   *)
(* email, in the same Remove or a later one, carries the empty identifier    *)
(* and not the evicted one.                                                  *)
C14_EvictedNotKickedAgain ==
    /\ [](DOMAIN gone \cap DOMAIN cache = {})
    /\ [][\A p \in Procs : EvictedAtOnce(p) /\ EvictedKickCarriesNoID(p)]_vars

\* A Remove retried after a partial failure: its call for the email that the
\* first attempt removed is about to go out, the other email still cached.
C14_Witness ==
    /\ pc[Main] = "kick"
    /\ fr[Main].index = 1
    /\ fr[Main].emails[1] \in DOMAIN gone
    /\ Len(fr[Main].emails) = 2
    /\ fr[Main].emails[2] \in DOMAIN cache
    /\ prev.op = "Remove"
    /\ prev.err = ErrRemote
    /\ prev.emails = fr[Main].emails

(* C14 (as stated): no removal call carries the identifier of an entry that  *)
(* an earlier successful removal evicted, unless that email was cached again *)
(* in between.                                                               *)
C14_AsStated ==
    [][\A p \in Procs :
          KickStep(p) => \A e \in DOMAIN gone : KickIssued(p).arg # gone[e]]_vars

(* ---- removal of an email that is not cached ---- *)
\* Caller p is about to call for an email that has no cache entry.
KickMisses(p) == KickStep(p) /\ fr[p].emails[fr[p].index] \notin DOMAIN cache

\* The delay over, the loop of Remove moves to the next email, or returns
\* nil after the last one.
MovesOn(p) ==
    (pc[p] = "sleep" /\ Steps(p)) =>
        IF fr[p].index < Len(fr[p].emails)
        THEN /\ pc'[p] = "kick"
             /\ fr'[p].index = fr[p].index + 1
             /\ fr'[p].emails = fr[p].emails
        ELSE pc'[p] = "idle" /\ ret'.err = ErrNil

(* C15: a Remove that is past its entry guard and reaches an email with no   *)
(* cache entry at that moment (even with the cache empty or discarded by     *)
(* then) issues a removal call with the empty identifier; when that call     *)
(* succeeds the cache is left as it was and, after the delay, the loop moves *)
(* on to the next email.                                                     *)
C15_MissKicksEmptyID ==
    [][\A p \in Procs :
          /\ KickMisses(p) =>
                /\ KickIssued(p).api = "kick"
                /\ KickIssued(p).arg = NoID
                /\ KickIssued(p).ok =>
                      /\ cache' = cache
                      /\ cacheNil' = cacheNil
                      /\ pc'[p] = "sleep"
                      /\ fr'[p] = fr[p]
          /\ MovesOn(p)]_vars

\* A Remove of two emails, the first never cached: its call carried the empty
\* identifier and succeeded, and the second email was then called for with
\* its identifier.
C15_Witness ==
    /\ ret.op = "Remove"
    /\ ret.err = ErrNil
    /\ Len(ret.calls) = 4
    /\ ret.emails[1] \notin DOMAIN ret.cache0
    /\ ret.calls[1].api = "kick" /\ ret.calls[1].arg = NoID /\ ret.calls[1].ok
    /\ ret.calls[3].api = "kick" /\ ret.calls[3].arg # NoID

(* ---- Get keeps the entries it does not resolve ---- *)
(* C16: a Get that returned without error removed no cache entry: every      *)
(* email cached before it is cached after it, an email that is not in the    *)
(* returned list keeps the identifier it had, and only returned emails were  *)
(* added or overwritten (so the cache can hold more than the returned list). *)
C16_GetOnlyAdds ==
    (ret.op = "Get" /\ ret.err = ErrNil) =>
        /\ DOMAIN ret.cache0 \subseteq DOMAIN cache
        /\ \A e \in (DOMAIN ret.cache0) \ Range(ret.out) : cache[e] = ret.cache0[e]
        /\ (DOMAIN cache) \ (DOMAIN ret.cache0) \subseteq Range(ret.out)
        /\ cacheNil = ret.nil0

\* A Get that returned one email while the cache held an entry for another:
\* that entry is still there, so the cache holds more than the result.
C16_Witness ==
    /\ ret.op = "Get"
    /\ ret.err = ErrNil
    /\ Len(ret.out) = 1
    /\ \E e \in DOMAIN ret.cache0 : e \notin Range(ret.out) /\ cache[e] = ret.cache0[e]
    /\ Range(ret.out) \subseteq DOMAIN cache
    /\ Range(ret.out) # DOMAIN cache

(* ---- provenance of the cache ---- *)
\* A step of an operation that is neither a lookup of Add nor the info call
\* of Get creates no cache entry and changes none.
NoOtherWriter(p) ==
    (Steps(p) /\ pc[p] \notin {"lookup", "info"}) =>
        \A e \in DOMAIN cache' : e \in DOMAIN cache /\ cache'[e] = cache[e]

(* C17: after any sequence of Get, Add and Remove, every email in the cache  *)
(* was returned as a human by a Get or resolved by a lookup of an Add of     *)
(* this adapter, and is cached with the identifier the remote returned for   *)
(* it the last time that happened; no other step creates or changes an       *)
(* entry.                                                                    *)
C17_CacheProvenance ==
    /\ [](\A e \in DOMAIN cache : e \in DOMAIN learned /\ cache[e] = learned[e])
    /\ [][\A p \in Procs : NoOtherWriter(p)]_vars

\* An Add resolved an email that was cached with another identifier: the
\* cache now holds the newer one; the entry of the other email is from an
\* earlier operation.
C17_Witness ==
    /\ ret.op = "Add"
    /\ ret.err = ErrNil
    /\ ret.emails = <<"a@x.com">>
    /\ "a@x.com" \in DOMAIN ret.cache0
    /\ ret.cache0["a@x.com"] # ret.out[1]
    /\ "b@x.com" \in DOMAIN cache
    /\ cache["a@x.com"] = ret.out[1]

(* ---- termination of the listing loop ---- *)
\* Caller p takes a step of the listing loop of Get: the page call it issues
\* is the last of its log.
ListStep(p) == pc[p] = "list" /\ Steps(p)

ListIssued(p) == LET log == LogAfterStep(p) IN log[Len(log)]

\* The loop asks for another page exactly when the page just received came
\* without error and with a cursor that is not empty; a failed page call
\* makes Get return the error, an empty cursor sends it on to the info call.
LoopExit(p) ==
    ListStep(p) =>
        /\ ListIssued(p).api = "list"
        /\ pc'[p] = "list" <=> (ListIssued(p).ok /\ ListIssued(p).res # NoCursor)
        /\ ~ListIssued(p).ok => pc'[p] = "idle" /\ ret'.err = ErrRemote
        /\ (ListIssued(p).ok /\ ListIssued(p).res = NoCursor) => pc'[p] = "info"

\* Past the loop, the next step of Get is its return.
ReturnsAfterLoop(p) == (pc[p] = "info" /\ Steps(p)) => pc'[p] = "idle"

(* C18: the listing loop of Get goes on exactly as long as the pages come    *)
(* without error and with a non-empty cursor (so it never ends against a     *)
(* remote that keeps doing so), and once a page fails or comes with the      *)
(* empty cursor Get returns: at once on the failure, with its next step, the *)
(* info call, after the empty cursor.                                        *)
C18_LoopEndsAndGetReturns ==
    [][\A p \in Procs : LoopExit(p) /\ ReturnsAfterLoop(p)]_vars

\* The part of C18 about the loop alone.
LoopExitHolds == [][\A p \in Procs : LoopExit(p)]_vars

(* ---- Add keeps what it resolved ---- *)
\* Caller p takes a step of the lookup loop of Add: the call it issues is the
\* last of its log.
LookupStep(p) == pc[p] = "lookup" /\ Steps(p)

LookupIssued(p) == LET log == LogAfterStep(p) IN log[Len(log)]

\* The pair is in the cache with the step that resolved the email, and no
\* invite has been issued by then.
RecordedWhenResolved(p) ==
    (LookupStep(p) /\ LookupIssued(p).ok) =>
        LET email == fr[p].emails[fr[p].index]
        IN /\ LookupIssued(p).arg = email
           /\ email \in DOMAIN cache'
           /\ cache'[email] = LookupIssued(p).res
           /\ \A j \in 1..Len(calls[p]) : calls[p][j].api # "invite"

\* An Add whose k-th lookup failed: the cache is the one it found overwritten
\* with the pairs of the first k-1 emails, and no invite went out.
AddFailedKeepsResolved ==
    (ret.op = "Add" /\ FailedAt(ret.calls) = "lookup") =>
        LET k == Len(ret.calls)
            done == SubSeq(ret.emails, 1, k - 1)
            ids == [i \in 1..(k - 1) |-> ret.calls[i].res]
        IN /\ ret.err = ErrRemote
           /\ ret.calls[k].arg = ret.emails[k]
           /\ \A j \in 1..k : ret.calls[j].api = "lookup"
           /\ cacheNil = ret.nil0
           /\ DOMAIN cache = (DOMAIN ret.cache0) \cup Range(done)
           /\ \A e \in DOMAIN cache :
                cache[e] = IF e \in Range(done) THEN ResolvedFor(done, ids, e)
                           ELSE ret.cache0[e]

(* C19: Add puts each email with its identifier into the cache with the very *)
(* step that resolves it, before any invite, and keeps it when a later       *)
(* lookup fails: after a failure at the k-th email the cache is the earlier  *)
(* cache overwritten with the pairs of the first k-1 emails, none invited.   *)
C19_AddRecordsAsResolved ==
    /\ []AddFailedKeepsResolved
    /\ [][\A p \in Procs : RecordedWhenResolved(p)]_vars

\* The part of C19 about the cache after a failed lookup.
AddFailedKeepsResolvedHolds == []AddFailedKeepsResolved

(* ---- two callers at once ---- *)
\* The next step of the operation caller p is running.
StepOf(p) ==
    \/ GetUsersInConversation(p)
    \/ GetUsersInfo(p)
    \/ GetUserByEmail(p)
    \/ InviteUsersToConversation(p)
    \/ KickCall(p)
    \/ KickReturn(p)
    \/ Sleep(p)

(* C20: nothing in the adapter makes one caller wait for another: while the  *)
(* program has not crashed, a caller can enter Get, Add or Remove although   *)
(* the other caller is inside an operation, and a caller inside an operation *)
(* can take its next step whatever the other caller is doing, so the steps   *)
(* of two operations interleave freely (the states of C20_Witness and of     *)
(* DiscardedMidBatch are reached that way).                                  *)
C20_NoSynchronisation ==
    ~Panicked =>
        \A p \in Procs :
            /\ (pc[p] = "idle" /\ Overlapping) =>
                  /\ ENABLED (MayRun(p) /\ Get(p))
                  /\ \A emails \in Batches :
                        /\ ENABLED (MayRun(p) /\ Add(p, emails))
                        /\ ENABLED (MayRun(p) /\ Remove(p, emails))
            /\ Running(p) => ENABLED (MayRun(p) /\ StepOf(p))

\* Two overlapping Removes of the same email: both have read the identifier
\* cached for it and both removal calls are out with it, neither having
\* evicted the entry yet.
C20_Witness ==
    /\ \A p \in Procs : pc[p] = "kicking" /\ fr[p].op = "Remove"
    /\ fr["p1"].emails[fr["p1"].index] = fr["p2"].emails[fr["p2"].index]
    /\ fr["p1"].emails[fr["p1"].index] \in DOMAIN cache
    /\ \A p \in Procs :
          LET kick == calls[p][Len(calls[p])]
          IN kick.api = "kick" /\ kick.arg = cache[fr[p].emails[fr[p].index]]

\* A Remove overlapping an Add whose invite failed: the Remove entered with
\* the second email of its batch cached, the cache was discarded while it was
\* running, and its call for that email is out with the empty identifier.
DiscardedMidBatch ==
    \E p \in Procs :
        /\ pc[p] = "kicking"
        /\ fr[p].op = "Remove"
        /\ fr[p].index = 2
        /\ ~fr[p].nil0
        /\ cacheNil
        /\ fr[p].emails[2] # fr[p].emails[1]
        /\ {fr[p].emails[1], fr[p].emails[2]} \subseteq DOMAIN fr[p].cache0
        /\ calls[p][1].arg = fr[p].cache0[fr[p].emails[1]]
        /\ calls[p][Len(calls[p])].arg = NoID
        /\ ret.op = "Add" /\ FailedAt(ret.calls) = "invite"

====
